---- MODULE Spec2Model ----
(***************************************************************************)
(* A model of the code-review page: the CodeAnalysisAPI client             *)
(* (api-service.js, printed in README.md), its configuration (config.js)   *)
(* and the page script (event handlers, mock provider).                    *)
(*                                                                         *)
(* Five state machines share the module, one specification each:           *)
(*   SpecReq       analyzeCode / makeRequest against a provider            *)
(*   SpecNormalize transformResponse on provider responses                 *)
(*   SpecScore     calculateQualityScore on pairs of responses             *)
(*   SpecValidate  validateInput on (code, language) inputs                *)
(*   SpecPage      the page: editor, analyze / clear handlers, timers      *)
(***************************************************************************)
EXTENDS Integers, Sequences, FiniteSets, TLC

VARIABLES
    \* --- CodeAnalysisAPI instance and one analyzeCode call ---
    self,        \* this.baseUrl, this.apiKey, this.timeout, this.retryConfig
    options,     \* the options object analyzeCode passes to makeRequest
    requestOptions, \* makeRequest's requestOptions
    pc,          \* where the call is: idle, fetch, json, delay, returned, thrown, report, error
    attempt,     \* the loop variable of makeRequest
    lastError,   \* makeRequest's lastError
    timers,      \* per attempt: the setTimeout armed for it (state, ms left)
    elapsed,     \* ms since the current attempt started
    delayLeft,   \* ms left of the pending this.delay(...)
    delays,      \* the ms passed to this.delay, in order
    fetchCalls,  \* how many times fetch was called
    outcomes,    \* what the provider did on each attempt, in order
    aborted,     \* attempts whose in-flight call controller.abort() ended
    result,      \* what makeRequest returned
    surfaced,    \* errors analyzeCode threw to its caller
    report,      \* what analyzeCode returned
    \* --- transformResponse ---
    apiResponse, \* the provider response handed to transformResponse
    transformed, \* its outcome
    \* --- calculateQualityScore on two responses ---
    respA, respB, scoreA, scoreB,
    \* --- validateInput ---
    vCode, vLanguage, validation,
    \* --- the page ---
    codeInput,        \* codeInput.value
    languageSelect,   \* languageSelect.value
    loadingActive,    \* loadingState.classList has 'active'
    resultsActive,    \* resultsSection.classList has 'active'
    summary,          \* the four summary card texts
    lists,            \* issuesList / securityList / performanceList contents
    optimizedCode,    \* optimizedCode.textContent
    analyses,         \* the running invocations of the analyze handler, oldest first
                      \* (code, stage, and whether a clear was confirmed since)
    progressBar,      \* progressBar.style.width
    activeTab,        \* the tab button and content carrying 'active'
    dialog,           \* the modal alert / confirm on screen, or "none"
    providerCalls,    \* arguments of the getMockAnalysisData calls made
    renderedFrom,     \* code and language of the handler invocation that last rendered
    exported          \* reportData the export handler has just downloaded, if any

reqVars == <<self, options, requestOptions, pc, attempt, lastError, timers, elapsed,
             delayLeft, delays, fetchCalls, outcomes, aborted, result, surfaced, report>>
normVars == <<apiResponse, transformed>>
scoreVars == <<respA, respB, scoreA, scoreB>>
valVars == <<vCode, vLanguage, validation>>
pageVars == <<codeInput, languageSelect, loadingActive, resultsActive, summary,
              lists, optimizedCode, analyses, progressBar, activeTab, dialog,
              providerCalls, renderedFrom, exported>>
vars == <<reqVars, normVars, scoreVars, valVars, pageVars>>

\* What the actions of one machine leave alone: the other machines' variables.
otherThanReq == <<normVars, scoreVars, valVars, pageVars>>
otherThanNorm == <<reqVars, scoreVars, valVars, pageVars>>
otherThanScore == <<reqVars, normVars, valVars, pageVars>>
otherThanVal == <<reqVars, normVars, scoreVars, pageVars>>
otherThanPage == <<reqVars, normVars, scoreVars, valVars>>

(***************************************************************************)
(* config.js                                                               *)
(***************************************************************************)
CONFIG ==
    [api |-> [baseUrl |-> "https://api.yourservice.com/v1",
              apiKey |-> "your-api-key-here",
              timeout |-> 30000,
              retry |-> [maxRetries |-> 3, retryDelay |-> 1000]],
     analysis |-> [maxCodeLength |-> 50000,
                   supportedLanguages |->
                       {"javascript", "python", "java", "cpp", "csharp", "go",
                        "rust", "typescript", "php", "ruby", "swift", "kotlin"}]]

(***************************************************************************)
(* JavaScript values                                                       *)
(***************************************************************************)
\* The value of a property that is absent.
Undefined == "<undefined>"

\* A string is a sequence of runs [ch, n]: n >= 1 copies of the character ch,
\* so that strings longer than the 50,000 character limit can be written down.
Whitespace == {" ", "\n", "\t"}

Run(c, k) == [ch |-> c, n |-> k]

RECURSIVE StrLength(_)
StrLength(s) == IF s = <<>> THEN 0 ELSE Head(s).n + StrLength(Tail(s))

RECURSIVE TrimStart(_)
TrimStart(s) ==
    IF s = <<>> THEN <<>>
    ELSE IF Head(s).ch \in Whitespace THEN TrimStart(Tail(s)) ELSE s

RECURSIVE TrimEnd(_)
TrimEnd(s) ==
    IF s = <<>> THEN <<>>
    ELSE IF s[Len(s)].ch \in Whitespace THEN TrimEnd(SubSeq(s, 1, Len(s) - 1)) ELSE s

\* String.prototype.trim
Trim(s) == TrimEnd(TrimStart(s))

\* String.prototype.toLowerCase on the severity strings providers send.
ToLowerCase(s) ==
    CASE s \in {"high", "HIGH", "High"} -> "high"
      [] s \in {"medium", "MEDIUM", "Medium"} -> "medium"
      [] s \in {"low", "LOW", "Low"} -> "low"
      [] s \in {"critical", "Critical"} -> "critical"
      [] OTHER -> s

\* The text a small number becomes when assigned to textContent.
NumberText(n) == <<"0", "1", "2", "3", "4", "5", "6", "7", "8", "9">>[n + 1]

\* obj.f for a property that may be absent
Get(obj, f) == IF f \in DOMAIN obj THEN obj[f] ELSE Undefined

\* a || b on strings: "" and undefined are falsy
OrElse(a, b) == IF a # Undefined /\ a # "" THEN a ELSE b

\* apiResponse.f || [] : an absent list reads as the empty array
ListOrEmpty(obj, f) == IF f \in DOMAIN obj THEN obj[f] ELSE <<>>

TypeError == [kind |-> "throw", error |-> "TypeError"]

(***************************************************************************)
(* CodeAnalysisAPI: the pure methods                                       *)
(***************************************************************************)
Value(v) == [kind |-> "value", value |-> v]

\* A call that has not been made, or has not returned.
NotRun == [kind |-> "none"]

\* issue.severity.toLowerCase() throws when the finding carries no severity.
SeverityThrows(issues) ==
    \E i \in 1..Len(issues) : "severity" \notin DOMAIN issues[i]

\* The object transformIssues builds for one finding.
TransformIssue(issue) ==
    [title |-> OrElse(Get(issue, "title"), Get(issue, "message")),
     severity |-> ToLowerCase(issue.severity),
     description |-> OrElse(Get(issue, "description"), Get(issue, "details")),
     location |-> IF OrElse(Get(issue, "location"), "") # ""
                  THEN <<issue.location>>
                  ELSE <<"Line ", OrElse(Get(issue, "line"), "Unknown")>>,
     code |-> OrElse(Get(issue, "codeSnippet"), ""),
     suggestion |-> OrElse(Get(issue, "recommendation"), OrElse(Get(issue, "fix"), ""))]

transformIssues(issues) ==
    IF SeverityThrows(issues) THEN TypeError
    ELSE Value([i \in 1..Len(issues) |-> TransformIssue(issues[i])])

\* The concatenation countSeverity filters.
AllIssues(r) ==
    ListOrEmpty(r, "issues") \o ListOrEmpty(r, "security") \o ListOrEmpty(r, "performance")

countSeverity(r, severity) ==
    IF SeverityThrows(AllIssues(r)) THEN TypeError
    ELSE Value(Cardinality({i \in 1..Len(AllIssues(r)) :
                               ToLowerCase(AllIssues(r)[i].severity) = severity}))

\* calculateQualityScore with the returns of the B+ and B rows exchanged.
calculateQualityScore_SwappedRows(r) ==
    LET totalIssues == Len(ListOrEmpty(r, "issues")) + Len(ListOrEmpty(r, "security"))
                         + Len(ListOrEmpty(r, "performance"))
        high == countSeverity(r, "high")
    IN  IF high.kind = "throw" THEN TypeError
        ELSE LET highSeverity == high.value
             IN  Value(IF totalIssues = 0 THEN "A+"
                       ELSE IF highSeverity = 0 /\ totalIssues <= 2 THEN "A"
                       ELSE IF highSeverity = 0 /\ totalIssues <= 5 THEN "B"
                       ELSE IF highSeverity <= 1 /\ totalIssues <= 8 THEN "B+"
                       ELSE IF highSeverity <= 2 THEN "C+"
                       ELSE "C")

calculateQualityScore(r) ==
    LET totalIssues == Len(ListOrEmpty(r, "issues")) + Len(ListOrEmpty(r, "security"))
                         + Len(ListOrEmpty(r, "performance"))
        high == countSeverity(r, "high")
        medium == countSeverity(r, "medium")
    IN  IF high.kind = "throw" \/ medium.kind = "throw" THEN TypeError
        ELSE LET highSeverity == high.value
             IN  Value(IF totalIssues = 0 THEN "A+"
                       ELSE IF highSeverity = 0 /\ totalIssues <= 2 THEN "A"
                       ELSE IF highSeverity = 0 /\ totalIssues <= 5 THEN "B+"
                       ELSE IF highSeverity <= 1 /\ totalIssues <= 8 THEN "B"
                       ELSE IF highSeverity <= 2 THEN "C+"
                       ELSE "C")

\* transformResponse without the `|| ''` default of the optimized code.
transformResponse_NoDefault(r) ==
    LET i == transformIssues(ListOrEmpty(r, "issues"))
        s == transformIssues(ListOrEmpty(r, "security"))
        p == transformIssues(ListOrEmpty(r, "performance"))
        q == calculateQualityScore(r)
    IN  IF "throw" \in {i.kind, s.kind, p.kind, q.kind} THEN TypeError
        ELSE Value([issues |-> i.value,
                    security |-> s.value,
                    performance |-> p.value,
                    optimized |-> Get(r, "optimizedCode"),
                    stats |-> [issuesCount |-> Len(ListOrEmpty(r, "issues")),
                               securityCount |-> Len(ListOrEmpty(r, "security")),
                               optimizationsCount |-> Len(ListOrEmpty(r, "performance")),
                               qualityScore |-> q.value]])

transformResponse(r) ==
    LET i == transformIssues(ListOrEmpty(r, "issues"))
        s == transformIssues(ListOrEmpty(r, "security"))
        p == transformIssues(ListOrEmpty(r, "performance"))
        q == calculateQualityScore(r)
    IN  IF "throw" \in {i.kind, s.kind, p.kind, q.kind} THEN TypeError
        ELSE Value([issues |-> i.value,
                    security |-> s.value,
                    performance |-> p.value,
                    optimized |-> OrElse(Get(r, "optimizedCode"), ""),
                    stats |-> [issuesCount |-> Len(ListOrEmpty(r, "issues")),
                               securityCount |-> Len(ListOrEmpty(r, "security")),
                               optimizationsCount |-> Len(ListOrEmpty(r, "performance")),
                               qualityScore |-> q.value]])

\* The three messages validateInput can push.
EmptyError == <<"Code cannot be empty">>
LengthError == <<"Code exceeds maximum length of 50,000 characters">>
LanguageError(language) == <<"Unsupported language: ", language>>

\* validateInput that returns at the first violated constraint.
validateInput_FirstOnly(code, language) ==
    LET supportedLanguages ==
            {"javascript", "python", "java", "cpp", "csharp",
             "go", "rust", "typescript", "php", "ruby", "swift", "kotlin"}
        errors == IF code = <<>> \/ StrLength(Trim(code)) = 0 THEN <<EmptyError>>
                  ELSE IF StrLength(code) > 50000 THEN <<LengthError>>
                  ELSE IF language \notin supportedLanguages
                       THEN <<LanguageError(language)>> ELSE <<>>
    IN  [isValid |-> Len(errors) = 0, errors |-> errors]

validateInput_LimitPerLine(code, language) ==
    LET supportedLanguages ==
            {"javascript", "python", "java", "cpp", "csharp",
             "go", "rust", "typescript", "php", "ruby", "swift", "kotlin"}
        e1 == IF code = <<>> \/ StrLength(Trim(code)) = 0 THEN <<EmptyError>> ELSE <<>>
        e2 == IF \E i \in 1..Len(code) : code[i].n > 50000
              THEN <<LengthError>> ELSE <<>>
        e3 == IF language \notin supportedLanguages
              THEN <<LanguageError(language)>> ELSE <<>>
        errors == e1 \o e2 \o e3
    IN  [isValid |-> Len(errors) = 0, errors |-> errors]

validateInput(code, language) ==
    LET supportedLanguages ==
            {"javascript", "python", "java", "cpp", "csharp",
             "go", "rust", "typescript", "php", "ruby", "swift", "kotlin"}
        e1 == IF code = <<>> \/ StrLength(Trim(code)) = 0 THEN <<EmptyError>> ELSE <<>>
        e2 == IF StrLength(code) > 50000 THEN <<LengthError>> ELSE <<>>
        e3 == IF language \notin supportedLanguages
              THEN <<LanguageError(language)>> ELSE <<>>
        errors == e1 \o e2 \o e3
    IN  [isValid |-> Len(errors) = 0, errors |-> errors]

(***************************************************************************)
(* Provider responses and findings used as inputs                          *)
(***************************************************************************)
\* The finding of the mock provider's first issue, in the API's field names.
VarFinding ==
    [title |-> "Using var instead of const/let", severity |-> "medium",
     description |-> "The var keyword has function scope",
     location |-> "Line 2", codeSnippet |-> "var total = 0;",
     recommendation |-> "Replace var with let or const"]

\* A finding that uses the fallback field names and an upper-case severity.
FallbackFinding ==
    [message |-> "SQL built by concatenation", severity |-> "HIGH",
     details |-> "User input reaches the query", line |-> "12", fix |-> "Bind parameters"]

\* A finding that carries nothing but a severity outside the three levels.
CriticalFinding == [severity |-> "Critical"]

\* A finding with no severity at all.
NoSeverityFinding == [title |-> "Unused import"]

\* A response with no field at all.
MinimalResponse == <<>>

(***************************************************************************)
(* CodeAnalysisAPI: constructor, analyzeCode, makeRequest                  *)
(***************************************************************************)
Attempts == 0..CONFIG.api.retry.maxRetries

NoTimer == [state |-> "unarmed", left |-> 0]

NoOptions == [method |-> "", body |-> [code |-> <<>>, language |-> ""]]

AnalyzeFailed == "Failed to analyze code. Please try again."

\* What the provider may answer with on an attempt that succeeds.
ReqPayloads ==
    {MinimalResponse,
     [issues |-> <<VarFinding>>, optimizedCode |-> "const total = 0;"],
     [issues |-> <<VarFinding>>, security |-> <<NoSeverityFinding>>]}

ReqCodes == {<<Run("a", 1)>>, <<Run("v", 3), Run(" ", 1), Run("x", 2)>>}

ReqLanguages == {"javascript"}

\* new CodeAnalysisAPI(CONFIG)
Constructed ==
    [baseUrl |-> CONFIG.api.baseUrl,
     apiKey |-> CONFIG.api.apiKey,
     timeout |-> CONFIG.api.timeout,
     retryConfig |-> CONFIG.api.retry]

ReqIdle ==
    /\ self = Constructed
    /\ options = NoOptions
    /\ requestOptions = NoOptions
    /\ pc = "idle"
    /\ attempt = 0
    /\ lastError = "none"
    /\ timers = [k \in Attempts |-> NoTimer]
    /\ elapsed = 0
    /\ delayLeft = 0
    /\ delays = <<>>
    /\ fetchCalls = 0
    /\ outcomes = <<>>
    /\ aborted = {}
    /\ result = NotRun
    /\ surfaced = <<>>
    /\ report = NotRun

\* The top of one loop iteration, up to the await: a new controller, its
\* timer armed with this.timeout, and fetch called.
BeginAttempt(k) ==
    /\ attempt' = k
    /\ timers' = [timers EXCEPT ![k] = [state |-> "pending", left |-> self.timeout]]
    /\ fetchCalls' = fetchCalls + 1
    /\ elapsed' = 0
    /\ pc' = "fetch"

\* Catch with the multiplication by the attempt number left out.
Catch_FlatDelay(error) ==
    /\ lastError' = error
    /\ outcomes' = Append(outcomes, [kind |-> error, payload |-> MinimalResponse])
    /\ IF attempt < self.retryConfig.maxRetries
       THEN /\ pc' = "delay"
            /\ delayLeft' = self.retryConfig.retryDelay
            /\ delays' = Append(delays, self.retryConfig.retryDelay)
       ELSE /\ pc' = "thrown"
            /\ UNCHANGED <<delayLeft, delays>>

\* Catch that waits after the last failed attempt too (<= for <).
Catch_DelayAfterLast(error) ==
    /\ lastError' = error
    /\ outcomes' = Append(outcomes, [kind |-> error, payload |-> MinimalResponse])
    /\ pc' = "delay"
    /\ delayLeft' = self.retryConfig.retryDelay * (attempt + 1)
    /\ delays' = Append(delays, self.retryConfig.retryDelay * (attempt + 1))

\* The catch block of the loop: remember the error, then either wait
\* retryDelay * (attempt + 1) or leave the loop and throw lastError.
Catch(error) ==
    /\ lastError' = error
    /\ outcomes' = Append(outcomes, [kind |-> error, payload |-> MinimalResponse])
    /\ IF attempt < self.retryConfig.maxRetries
       THEN /\ pc' = "delay"
            /\ delayLeft' = self.retryConfig.retryDelay * (attempt + 1)
            /\ delays' = Append(delays, self.retryConfig.retryDelay * (attempt + 1))
       ELSE /\ pc' = "thrown"
            /\ UNCHANGED <<delayLeft, delays>>

\* The object analyzeCode builds for the call of makeRequest.
BuiltOptions(code, language) ==
    [method |-> "POST", body |-> [code |-> code, language |-> language]]

\* { ...a, ...b }: the properties of a, overridden and extended by those of b.
Spread(a, b) == [f \in DOMAIN a \cup DOMAIN b |-> IF f \in DOMAIN b THEN b[f] ELSE a[f]]

\* makeRequest's defaultOptions.
DefaultOptions ==
    [headers |-> [ContentType |-> "application/json",
                  Authorization |-> <<"Bearer ", self.apiKey>>,
                  XClientVersion |-> "1.0.0"]]

\* The entry of makeRequest with Object.assign(options, defaultOptions) for
\* the spread: the headers are written into the caller's object.
MakeRequestEntry_AssignInto(opts) ==
    /\ requestOptions' = Spread(opts, DefaultOptions)
    /\ options' = Spread(opts, DefaultOptions)
    /\ UNCHANGED self

\* The entry of makeRequest, called with the object opts: requestOptions is a
\* new object spread from defaultOptions and opts; opts and this are only read.
MakeRequestEntry(opts) ==
    /\ requestOptions' = Spread(DefaultOptions, opts)
    /\ options' = opts
    /\ UNCHANGED self

\* analyzeCode(code, language) up to the first await inside makeRequest.
AnalyzeCode(code, language) ==
    /\ pc = "idle"
    /\ MakeRequestEntry(BuiltOptions(code, language))
    /\ lastError' = "none"
    /\ BeginAttempt(0)
    /\ UNCHANGED <<delayLeft, delays, outcomes, aborted, result, surfaced, report>>
    /\ UNCHANGED otherThanReq

\* fetch resolves with a response: the timer is cleared, then response.ok is tested.
FetchResolve(ok) ==
    /\ pc = "fetch"
    /\ timers' = [timers EXCEPT ![attempt].state = "cleared"]
    /\ IF ok
       THEN /\ pc' = "json"
            /\ UNCHANGED <<lastError, outcomes, delayLeft, delays>>
       ELSE Catch("http")
    /\ UNCHANGED <<self, options, requestOptions,
                   attempt, elapsed, fetchCalls, aborted, result,
                   surfaced, report>>
    /\ UNCHANGED otherThanReq

\* fetch rejects (network error): control goes straight to the catch block.
FetchReject ==
    /\ pc = "fetch"
    /\ Catch("network")
    /\ UNCHANGED <<self, options, requestOptions,
                   attempt, timers, elapsed, fetchCalls, aborted,
                   result, surfaced, report>>
    /\ UNCHANGED otherThanReq

\* The timer of attempt k fires: controller.abort(). Only a fetch still in
\* flight is ended by it, rejecting with an AbortError.
TimerFire(k) ==
    /\ timers[k].state = "pending"
    /\ timers[k].left = 0
    /\ timers' = [timers EXCEPT ![k].state = "fired"]
    /\ IF k = attempt /\ pc = "fetch"
       THEN /\ aborted' = aborted \cup {k}
            /\ Catch("abort")
       ELSE UNCHANGED <<aborted, lastError, outcomes, pc, delayLeft, delays>>
    /\ UNCHANGED <<self, options, requestOptions,
                   attempt, elapsed, fetchCalls, result, surfaced, report>>
    /\ UNCHANGED otherThanReq

\* JsonResolve without the return: the parsed body is kept and the loop goes on.
JsonResolve_NoReturn(payload) ==
    /\ pc = "json"
    /\ result' = Value(payload)
    /\ outcomes' = Append(outcomes, [kind |-> "ok", payload |-> payload])
    /\ IF attempt < self.retryConfig.maxRetries
       THEN BeginAttempt(attempt + 1)
       ELSE /\ pc' = "returned"
            /\ UNCHANGED <<attempt, timers, elapsed, fetchCalls>>
    /\ UNCHANGED <<self, options, requestOptions,
                   lastError, delayLeft, delays, aborted, surfaced, report>>
    /\ UNCHANGED otherThanReq

\* response.json() resolves: makeRequest returns the parsed body.
JsonResolve(payload) ==
    /\ pc = "json"
    /\ result' = Value(payload)
    /\ outcomes' = Append(outcomes, [kind |-> "ok", payload |-> payload])
    /\ pc' = "returned"
    /\ UNCHANGED <<self, options, requestOptions,
                   attempt, lastError, timers, elapsed, delayLeft,
                   delays, fetchCalls, aborted, surfaced, report>>
    /\ UNCHANGED otherThanReq

\* response.json() rejects (the body is not JSON, or the connection drops).
JsonReject ==
    /\ pc = "json"
    /\ Catch("parse")
    /\ UNCHANGED <<self, options, requestOptions,
                   attempt, timers, elapsed, fetchCalls, aborted,
                   result, surfaced, report>>
    /\ UNCHANGED otherThanReq

\* The delay is over: attempt++, the loop condition is tested, and the next
\* iteration begins or the loop is left and lastError thrown.
DelayDone ==
    /\ pc = "delay"
    /\ delayLeft = 0
    /\ IF attempt + 1 <= self.retryConfig.maxRetries
       THEN BeginAttempt(attempt + 1)
       ELSE /\ pc' = "thrown"
            /\ UNCHANGED <<attempt, timers, elapsed, fetchCalls>>
    /\ UNCHANGED <<self, options, requestOptions,
                   lastError, delayLeft, delays, outcomes, aborted,
                   result, surfaced, report>>
    /\ UNCHANGED otherThanReq

\* The deadlines still ahead: the armed timers and the running delay.
Deadlines ==
    {timers[k].left : k \in {j \in Attempts : timers[j].state = "pending"}}
        \cup (IF pc = "delay" THEN {delayLeft} ELSE {})

Earliest(S) == CHOOSE d \in S : \A e \in S : d <= e

\* Time passes up to the next deadline. While a body is being read and no
\* timer is armed, it passes by a whole timeout, until one timeout past the
\* attempt's own deadline.
Advance ==
    /\ \E d \in (IF Deadlines # {} THEN {Earliest(Deadlines)}
                 ELSE IF pc = "json" /\ elapsed <= self.timeout THEN {self.timeout}
                 ELSE {}) :
          /\ d > 0
          /\ timers' = [k \in Attempts |->
                           IF timers[k].state = "pending"
                           THEN [timers[k] EXCEPT !.left = @ - d] ELSE timers[k]]
          /\ delayLeft' = IF pc = "delay" THEN delayLeft - d ELSE delayLeft
          /\ elapsed' = IF pc \in {"fetch", "json"} THEN elapsed + d ELSE elapsed
    /\ UNCHANGED <<self, options, requestOptions,
                   pc, attempt, lastError, delays, fetchCalls, outcomes,
                   aborted, result, surfaced, report>>
    /\ UNCHANGED otherThanReq

\* analyzeCode after makeRequest returned: transformResponse(response), whose
\* exception the catch block replaces by the generic error.
AnalyzeCodeReturn ==
    /\ pc = "returned"
    /\ LET t == transformResponse(result.value)
       IN  IF t.kind = "value"
           THEN /\ report' = t
                /\ pc' = "report"
                /\ UNCHANGED surfaced
           ELSE /\ surfaced' = Append(surfaced, AnalyzeFailed)
                /\ pc' = "error"
                /\ UNCHANGED report
    /\ UNCHANGED <<self, options, requestOptions,
                   attempt, lastError, timers, elapsed, delayLeft,
                   delays, fetchCalls, outcomes, aborted, result>>
    /\ UNCHANGED otherThanReq

\* analyzeCode after makeRequest threw lastError: the catch block logs it and
\* throws the generic error.
AnalyzeCodeCatch ==
    /\ pc = "thrown"
    /\ surfaced' = Append(surfaced, AnalyzeFailed)
    /\ pc' = "error"
    /\ UNCHANGED <<self, options, requestOptions,
                   attempt, lastError, timers, elapsed, delayLeft,
                   delays, fetchCalls, outcomes, aborted, result, report>>
    /\ UNCHANGED otherThanReq

(***************************************************************************)
(* transformResponse applied to one provider response                      *)
(***************************************************************************)
MaxFindings == 1

FindingInputs == {VarFinding, FallbackFinding, CriticalFinding, NoSeverityFinding}

RECURSIVE SeqsUpTo(_, _)
SeqsUpTo(S, n) ==
    IF n = 0 THEN {<<>>}
    ELSE SeqsUpTo(S, n - 1)
           \cup {Append(q, x) : q \in {p \in SeqsUpTo(S, n - 1) : Len(p) = n - 1}, x \in S}

\* A field of the response: absent, or present with a value.
Absent == [present |-> FALSE]
Present(v) == [present |-> TRUE, v |-> v]

ListFieldInputs == {Absent} \cup {Present(q) : q \in SeqsUpTo(FindingInputs, MaxFindings)}
TextFieldInputs == {Absent, Present(""), Present("const total = 0;")}

\* The response object that has exactly the present fields.
Response(i, s, p, o) ==
    LET present == [issues |-> i, security |-> s, performance |-> p, optimizedCode |-> o]
    IN  [f \in {g \in DOMAIN present : present[g].present} |-> present[f].v]

NormInputs ==
    {Response(i, s, p, o) : i \in ListFieldInputs, s \in ListFieldInputs,
                            p \in ListFieldInputs, o \in TextFieldInputs}

NormIdle ==
    /\ apiResponse = MinimalResponse
    /\ transformed = NotRun

NormInit ==
    /\ apiResponse \in NormInputs
    /\ transformed = NotRun

Transform ==
    /\ transformed = NotRun
    /\ transformed' = transformResponse(apiResponse)
    /\ UNCHANGED apiResponse
    /\ UNCHANGED otherThanNorm

(***************************************************************************)
(* calculateQualityScore applied to two provider responses                 *)
(***************************************************************************)
MaxTotal == 10
MaxHigh == 4

HighSpellings == <<"high", "HIGH", "High">>
OtherSpellings == <<"medium", "low", "Medium", "LOW", "Critical">>

\* t findings of which h are high-severity, the high ones first or last;
\* with noSeverity, the first finding that is not high carries no severity.
ScoreFindings(h, t, highFirst, noSeverity) ==
    [k \in 1..t |->
        IF (highFirst /\ k <= h) \/ (~highFirst /\ k > t - h)
        THEN [title |-> "finding", severity |-> HighSpellings[(k % 3) + 1]]
        ELSE IF noSeverity /\ k = (IF highFirst THEN h + 1 ELSE 1)
             THEN NoSeverityFinding
             ELSE [title |-> "finding", severity |-> OtherSpellings[(k % 5) + 1]]]

\* The same findings dealt over the three lists; a list left empty is absent.
ScoreResponse(h, t, highFirst, noSeverity) ==
    LET all == ScoreFindings(h, t, highFirst, noSeverity)
        nI == (t + 2) \div 3
        nS == (t + 1) \div 3
        part(a, n) == IF n = 0 THEN Absent ELSE Present(SubSeq(all, a + 1, a + n))
    IN  Response(part(0, nI), part(nI, nS), part(nI + nS, t \div 3), Absent)

ScoreInputs ==
    {ScoreResponse(h, t, f, n) : h \in 0..MaxHigh, t \in 0..MaxTotal,
                                 f \in BOOLEAN, n \in BOOLEAN}

ScoreIdle ==
    /\ respA = MinimalResponse
    /\ respB = MinimalResponse
    /\ scoreA = NotRun
    /\ scoreB = NotRun

ScoreInit ==
    /\ respA \in ScoreInputs
    /\ respB \in ScoreInputs
    /\ scoreA = NotRun
    /\ scoreB = NotRun

Score ==
    /\ scoreA = NotRun
    /\ scoreA' = calculateQualityScore(respA)
    /\ scoreB' = calculateQualityScore(respB)
    /\ UNCHANGED <<respA, respB>>
    /\ UNCHANGED otherThanScore

(***************************************************************************)
(* validateInput applied to one (code, language) pair                      *)
(***************************************************************************)
MaxRuns == 2

RunInputs == {Run(c, k) : c \in {" ", "\n", "a"}, k \in {1, 49999, 50000, 50001}}

ValCodes == SeqsUpTo(RunInputs, MaxRuns)

ValLanguages == CONFIG.analysis.supportedLanguages \cup {"perl", "JavaScript", ""}

ValIdle ==
    /\ vCode = <<>>
    /\ vLanguage = ""
    /\ validation = NotRun

ValInit ==
    /\ vCode \in ValCodes
    /\ vLanguage \in ValLanguages
    /\ validation = NotRun

Validate ==
    /\ validation = NotRun
    /\ validation' = Value(validateInput(vCode, vLanguage))
    /\ UNCHANGED <<vCode, vLanguage>>
    /\ UNCHANGED otherThanVal

(***************************************************************************)
(* The page script                                                         *)
(***************************************************************************)
MaxAnalyses == 2

\* getMockAnalysisData that reports the var finding for JavaScript only.
getMockAnalysisData_ByLanguage(code, language) ==
    [issues |-> IF language = "javascript"
                THEN <<[title |-> "Using var instead of const/let", severity |-> "medium"],
                       [title |-> "Inefficient loop iteration", severity |-> "low"]>>
                ELSE <<[title |-> "Inefficient loop iteration", severity |-> "low"]>>,
     security |-> <<[title |-> "Potential type coercion issue", severity |-> "medium"]>>,
     performance |-> <<[title |-> "Array concatenation in loop", severity |-> "medium"],
                       [title |-> "Consider using modern array methods",
                        severity |-> "low"]>>,
     optimized |-> "// Optimized version using modern JavaScript best practices",
     stats |-> [issuesCount |-> IF language = "javascript" THEN 2 ELSE 1,
                securityCount |-> 1, optimizationsCount |-> 2, qualityScore |-> "B+"]]

\* getMockAnalysisData(code, language): neither argument is read.
getMockAnalysisData(code, language) ==
    [issues |-> <<[title |-> "Using var instead of const/let", severity |-> "medium"],
                  [title |-> "Inefficient loop iteration", severity |-> "low"]>>,
     security |-> <<[title |-> "Potential type coercion issue", severity |-> "medium"]>>,
     performance |-> <<[title |-> "Array concatenation in loop", severity |-> "medium"],
                       [title |-> "Consider using modern array methods",
                        severity |-> "low"]>>,
     optimized |-> "// Optimized version using modern JavaScript best practices",
     stats |-> [issuesCount |-> 2, securityCount |-> 1, optimizationsCount |-> 2,
                qualityScore |-> "B+"]]

\* What the user can have in the editor and in the language select.
PageCodes ==
    {<<>>, <<Run(" ", 2)>>, <<Run("\n", 1), Run("\t", 1)>>,
     <<Run("a", 1)>>, <<Run(" ", 1), Run("v", 3), Run("\n", 1)>>}

PageLanguages == {"javascript", "python"}

Tabs == {"issues", "security", "performance", "optimized"}

EmptyAlert == "Please enter some code to analyze"
ClearConfirm == "Are you sure you want to clear the code?"

\* The texts the markup starts with, before any analysis has written them.
NoSummary == [issues |-> "0", security |-> "0", optimizations |-> "0", qualityScore |-> "-"]
NoLists == [issues |-> <<>>, security |-> <<>>, performance |-> <<>>]

\* The locals code and language of a handler invocation, before any has rendered.
NoAnalysis == [code |-> <<>>, language |-> ""]

PageIdle ==
    /\ codeInput = <<>>
    /\ languageSelect = "javascript"
    /\ loadingActive = FALSE
    /\ resultsActive = FALSE
    /\ summary = NoSummary
    /\ lists = NoLists
    /\ optimizedCode = ""
    /\ analyses = <<>>
    /\ progressBar = "0%"
    /\ activeTab = "issues"
    /\ dialog = "none"
    /\ providerCalls = {}
    /\ renderedFrom = NoAnalysis
    /\ exported = NotRun

\* AnalyzeHandler without the trim: the raw editor content is tested.
AnalyzeHandler_NoTrim ==
    LET code == codeInput
    IN  IF StrLength(code) = 0
        THEN /\ dialog' = EmptyAlert
             /\ UNCHANGED <<codeInput, languageSelect, loadingActive, resultsActive,
                            summary, lists, optimizedCode, analyses, progressBar,
                            activeTab, providerCalls,
                   renderedFrom>>
        ELSE /\ loadingActive' = TRUE
             /\ resultsActive' = FALSE
             /\ progressBar' = "0%"
             /\ analyses' = Append(analyses, [code |-> code, stage |-> "waiting",
                                              cleared |-> FALSE])
             /\ UNCHANGED <<codeInput, languageSelect, summary, lists, optimizedCode,
                            activeTab, dialog, providerCalls,
                   renderedFrom>>

\* The click handler of analyzeBtn, up to its await: the trimmed editor
\* content is tested; an empty one raises the alert and nothing else.
AnalyzeHandler ==
    LET code == Trim(codeInput)
    IN  IF StrLength(code) = 0
        THEN /\ dialog' = EmptyAlert
             /\ UNCHANGED <<codeInput, languageSelect, loadingActive, resultsActive,
                            summary, lists, optimizedCode, analyses, progressBar,
                            activeTab, providerCalls,
                   renderedFrom>>
        ELSE /\ loadingActive' = TRUE
             /\ resultsActive' = FALSE
             /\ progressBar' = "0%"
             /\ analyses' = Append(analyses, [code |-> code, stage |-> "waiting",
                                              cleared |-> FALSE])
             /\ UNCHANGED <<codeInput, languageSelect, summary, lists, optimizedCode,
                            activeTab, dialog, providerCalls,
                   renderedFrom>>

\* The user clicks the analyze button.
AnalyzeClick ==
    /\ dialog = "none"
    /\ Len(analyses) < MaxAnalyses
    /\ AnalyzeHandler
    /\ exported' = NotRun
    /\ UNCHANGED otherThanPage

\* Ctrl/Cmd+Enter: the keydown handler calls analyzeBtn.click().
AnalyzeShortcut ==
    /\ dialog = "none"
    /\ Len(analyses) < MaxAnalyses
    /\ AnalyzeHandler
    /\ exported' = NotRun
    /\ UNCHANGED otherThanPage

\* The user dismisses the alert.
DismissAlert ==
    /\ dialog = EmptyAlert
    /\ dialog' = "none"
    /\ UNCHANGED <<codeInput, languageSelect, loadingActive, resultsActive, summary,
                   lists, optimizedCode, analyses, progressBar, activeTab, providerCalls,
                   renderedFrom>>
    /\ exported' = NotRun
    /\ UNCHANGED otherThanPage

\* The interval of a waiting analysis ticks: the bar moves to at most 90%.
ProgressTick ==
    /\ dialog = "none"
    /\ \E i \in 1..Len(analyses) : analyses[i].stage = "waiting"
    /\ progressBar' = "upTo90%"
    /\ UNCHANGED <<codeInput, languageSelect, loadingActive, resultsActive, summary,
                   lists, optimizedCode, analyses, activeTab, dialog, providerCalls,
                   renderedFrom>>
    /\ exported' = NotRun
    /\ UNCHANGED otherThanPage

\* The 2000 ms wait of the oldest waiting analysis is over: the handler goes on
\* from its await, reads the language, calls the mock provider, writes the
\* summary cards, the lists and the optimized code, and arms the 500 ms timer.
AnalysisContinue ==
    /\ dialog = "none"
    /\ \E i \in 1..Len(analyses) :
          /\ analyses[i].stage = "waiting"
          /\ \A j \in 1..(i - 1) : analyses[j].stage # "waiting"
          /\ LET language == languageSelect
                 analysis == getMockAnalysisData(analyses[i].code, language)
             IN  /\ providerCalls' = providerCalls \cup {<<analyses[i].code, language>>}
                 /\ renderedFrom' = [code |-> analyses[i].code, language |-> language]
                 /\ progressBar' = "100%"
                 /\ summary' = [issues |-> NumberText(analysis.stats.issuesCount),
                                security |-> NumberText(analysis.stats.securityCount),
                                optimizations |->
                                    NumberText(analysis.stats.optimizationsCount),
                                qualityScore |-> analysis.stats.qualityScore]
                 /\ lists' = [issues |-> analysis.issues,
                              security |-> analysis.security,
                              performance |-> analysis.performance]
                 /\ optimizedCode' = analysis.optimized
                 /\ analyses' = [analyses EXCEPT ![i].stage = "revealing"]
    /\ UNCHANGED <<codeInput, languageSelect, loadingActive, resultsActive, activeTab,
                   dialog>>
    /\ exported' = NotRun
    /\ UNCHANGED otherThanPage

\* Reveal that hides the loading indicator and leaves the results hidden.
Reveal_NoShow ==
    /\ dialog = "none"
    /\ analyses # <<>>
    /\ Head(analyses).stage = "revealing"
    /\ loadingActive' = FALSE
    /\ analyses' = Tail(analyses)
    /\ UNCHANGED <<codeInput, languageSelect, resultsActive, summary, lists,
                   optimizedCode, progressBar, activeTab, dialog, providerCalls,
                   renderedFrom>>
    /\ exported' = NotRun
    /\ UNCHANGED otherThanPage

\* The 500 ms timer of the oldest analysis fires: loading off, results on.
Reveal ==
    /\ dialog = "none"
    /\ analyses # <<>>
    /\ Head(analyses).stage = "revealing"
    /\ loadingActive' = FALSE
    /\ resultsActive' = TRUE
    /\ analyses' = Tail(analyses)
    /\ UNCHANGED <<codeInput, languageSelect, summary, lists, optimizedCode, progressBar,
                   activeTab, dialog, providerCalls,
                   renderedFrom>>
    /\ exported' = NotRun
    /\ UNCHANGED otherThanPage

\* The user clicks the clear button (or presses Ctrl/Cmd+K): confirm() opens.
ClearClick ==
    /\ dialog = "none"
    /\ dialog' = ClearConfirm
    /\ UNCHANGED <<codeInput, languageSelect, loadingActive, resultsActive, summary,
                   lists, optimizedCode, analyses, progressBar, activeTab, providerCalls,
                   renderedFrom>>
    /\ exported' = NotRun
    /\ UNCHANGED otherThanPage

\* The user answers the confirm: on OK the editor is emptied and the results
\* hidden. The handlers still waiting are not touched; the model marks them
\* as started before a confirmed clear.
ClearAnswer(ok) ==
    /\ dialog = ClearConfirm
    /\ dialog' = "none"
    /\ IF ok
       THEN /\ codeInput' = <<>>
            /\ resultsActive' = FALSE
            /\ analyses' = [i \in 1..Len(analyses) |->
                                [analyses[i] EXCEPT !.cleared = TRUE]]
       ELSE UNCHANGED <<codeInput, resultsActive, analyses>>
    /\ UNCHANGED <<languageSelect, loadingActive, summary, lists, optimizedCode,
                   progressBar, activeTab, providerCalls,
                   renderedFrom>>
    /\ exported' = NotRun
    /\ UNCHANGED otherThanPage

\* The user edits the editor content.
EditCode(code) ==
    /\ dialog = "none"
    /\ code # codeInput
    /\ codeInput' = code
    /\ UNCHANGED <<languageSelect, loadingActive, resultsActive, summary, lists,
                   optimizedCode, analyses, progressBar, activeTab, dialog, providerCalls,
                   renderedFrom>>
    /\ exported' = NotRun
    /\ UNCHANGED otherThanPage

\* The user picks another language.
LanguageChange(language) ==
    /\ dialog = "none"
    /\ language # languageSelect
    /\ languageSelect' = language
    /\ UNCHANGED <<codeInput, loadingActive, resultsActive, summary, lists,
                   optimizedCode, analyses, progressBar, activeTab, dialog, providerCalls,
                   renderedFrom>>
    /\ exported' = NotRun
    /\ UNCHANGED otherThanPage

\* The user clicks a tab button.
TabClick(tab) ==
    /\ dialog = "none"
    /\ tab # activeTab
    /\ activeTab' = tab
    /\ UNCHANGED <<codeInput, languageSelect, loadingActive, resultsActive, summary,
                   lists, optimizedCode, analyses, progressBar, dialog, providerCalls,
                   renderedFrom>>
    /\ exported' = NotRun
    /\ UNCHANGED otherThanPage

\* The user clicks the export button: reportData is built from what the
\* language select, the summary cards, the editor and the optimized code
\* element hold at that moment, and downloaded. The object and its blob URL
\* do not outlive the handler: every other handler finds none.
ExportClick ==
    /\ dialog = "none"
    /\ exported' = Value([timestamp |-> "new Date().toISOString()",
                          language |-> languageSelect,
                          summary |-> [issues |-> summary.issues,
                                       security |-> summary.security,
                                       optimizations |-> summary.optimizations,
                                       qualityScore |-> summary.qualityScore],
                          originalCode |-> codeInput,
                          optimizedCode |-> optimizedCode])
    /\ UNCHANGED <<codeInput, languageSelect, loadingActive, resultsActive, summary,
                   lists, optimizedCode, analyses, progressBar, activeTab, dialog,
                   providerCalls, renderedFrom>>
    /\ UNCHANGED otherThanPage

(***************************************************************************)
(* Specifications                                                          *)
(***************************************************************************)
InitReq == ReqIdle /\ NormIdle /\ ScoreIdle /\ ValIdle /\ PageIdle

NextReq ==
    \/ \E code \in ReqCodes, language \in ReqLanguages : AnalyzeCode(code, language)
    \/ \E ok \in BOOLEAN : FetchResolve(ok)
    \/ FetchReject
    \/ \E k \in Attempts : TimerFire(k)
    \/ \E payload \in ReqPayloads : JsonResolve(payload)
    \/ JsonReject
    \/ DelayDone
    \/ Advance
    \/ AnalyzeCodeReturn
    \/ AnalyzeCodeCatch

SpecReq == InitReq /\ [][NextReq]_vars

InitNormalize == ReqIdle /\ NormInit /\ ScoreIdle /\ ValIdle /\ PageIdle

NextNormalize == Transform

SpecNormalize == InitNormalize /\ [][NextNormalize]_vars

InitScore == ReqIdle /\ NormIdle /\ ScoreInit /\ ValIdle /\ PageIdle

NextScore == Score

SpecScore == InitScore /\ [][NextScore]_vars

InitValidate == ReqIdle /\ NormIdle /\ ScoreIdle /\ ValInit /\ PageIdle

NextValidate == Validate

SpecValidate == InitValidate /\ [][NextValidate]_vars

InitPage == ReqIdle /\ NormIdle /\ ScoreIdle /\ ValIdle /\ PageIdle

NextPage ==
    \/ AnalyzeClick
    \/ AnalyzeShortcut
    \/ DismissAlert
    \/ ProgressTick
    \/ AnalysisContinue
    \/ Reveal
    \/ ClearClick
    \/ \E ok \in BOOLEAN : ClearAnswer(ok)
    \/ \E code \in PageCodes : EditCode(code)
    \/ \E language \in PageLanguages : LanguageChange(language)
    \/ \E tab \in Tabs : TabClick(tab)
    \/ ExportClick

SpecPage == InitPage /\ [][NextPage]_vars

\* The same handlers with the user's edits drawn from fewer values: the
\* empty editor, whitespace only, one code.
FairCodes == {<<>>, <<Run(" ", 2)>>, <<Run("a", 1)>>}

NextPageFair ==
    \/ AnalyzeClick
    \/ AnalyzeShortcut
    \/ DismissAlert
    \/ ProgressTick
    \/ AnalysisContinue
    \/ Reveal
    \/ ClearClick
    \/ \E ok \in BOOLEAN : ClearAnswer(ok)
    \/ \E code \in FairCodes : EditCode(code)
    \/ \E language \in PageLanguages : LanguageChange(language)
    \/ \E tab \in Tabs : TabClick(tab)
    \/ ExportClick

\* The page with its scheduling: a timer callback that is due runs once the
\* event loop is free, however often dialogs get in its way, and an open
\* alert or confirm (which blocks the page) is answered.
SpecPageFair ==
    /\ InitPage
    /\ [][NextPageFair]_vars
    /\ SF_vars(AnalysisContinue)
    /\ SF_vars(Reveal)
    /\ WF_vars(DismissAlert)
    /\ WF_vars(\E ok \in BOOLEAN : ClearAnswer(ok))

(***************************************************************************)
(* Properties of makeRequest and analyzeCode (checked under SpecReq)       *)
(***************************************************************************)
MaxAttempts == CONFIG.api.retry.maxRetries + 1

Failed(o) == o.kind \in {"network", "http", "abort", "parse"}

\* The provider succeeded on the latest attempt.
Succeeded == outcomes # <<>> /\ outcomes[Len(outcomes)].kind = "ok"

\* makeRequest gave up: it threw, and no attempt succeeded.
Exhausted == pc \in {"thrown", "error"} /\ \A i \in 1..Len(outcomes) : Failed(outcomes[i])

\* C1: when the provider fails the first N-1 attempts and succeeds on attempt
\* N (1 <= N <= maxRetries + 1), makeRequest returns the response of attempt
\* N, fetch has been called exactly N times, exactly N-1 delays were waited,
\* and from then on the call is never again fetching or delaying.
C1_SuccessOnAttemptN ==
    Succeeded =>
        LET N == Len(outcomes)
        IN  /\ N \in 1..MaxAttempts
            /\ \A i \in 1..(N - 1) : Failed(outcomes[i])
            /\ result = Value(outcomes[N].payload)
            /\ fetchCalls = N
            /\ Len(delays) = N - 1
            /\ pc \in {"returned", "report", "error"}

\* C1 witness: the first three attempts failed and the fourth, the last one
\* allowed, succeeded and was returned.
C1_Witness ==
    /\ Succeeded
    /\ Len(outcomes) = MaxAttempts
    /\ pc = "report"
    /\ \E k \in Attempts : timers[k].state = "fired"

\* C2: the k-th delay of a request is retryDelay * k, it is waited right
\* after the k-th failed attempt and before attempt k+1 (counted from 1)
\* starts, and successive delays strictly increase.
C2_LinearDelays ==
    /\ \A k \in 1..Len(delays) : delays[k] = CONFIG.api.retry.retryDelay * k
    /\ \A k \in 1..(Len(delays) - 1) : delays[k] < delays[k + 1]
    /\ pc \in {"fetch", "json"} => Len(delays) = attempt /\ fetchCalls = attempt + 1
    /\ pc = "delay" => /\ Len(delays) = Len(outcomes)
                       /\ Failed(outcomes[Len(outcomes)])
                       /\ delayLeft <= delays[Len(delays)]

\* C2 witness: three delays were waited and the fourth attempt is in flight.
C2_Witness ==
    /\ Len(delays) = CONFIG.api.retry.maxRetries
    /\ pc = "fetch"
    /\ delays[Len(delays)] > CONFIG.api.retry.retryDelay

\* C3: there are never more than maxRetries + 1 attempts nor more than
\* maxRetries delays; when every attempt has failed, makeRequest has made
\* exactly maxRetries + 1 attempts and waited exactly maxRetries delays (none
\* after the last failure), and analyzeCode has thrown exactly one error and
\* returned no report.
C3_ExhaustionSurfacesOneError ==
    /\ fetchCalls <= MaxAttempts
    /\ Len(delays) <= CONFIG.api.retry.maxRetries
    /\ Len(surfaced) <= 1
    /\ Exhausted =>
          /\ fetchCalls = MaxAttempts
          /\ Len(outcomes) = MaxAttempts
          /\ Len(delays) = CONFIG.api.retry.maxRetries
          /\ result = NotRun
          /\ report = NotRun
          /\ pc = "error" => surfaced = <<AnalyzeFailed>>

\* C3 witness: four attempts failed, one of each kind, and analyzeCode threw.
C3_Witness ==
    /\ Exhausted
    /\ pc = "error"
    /\ {outcomes[i].kind : i \in 1..Len(outcomes)} = {"network", "http", "abort", "parse"}

\* C4: an attempt's call is never in flight longer than this.timeout after the
\* attempt started (at the deadline it is aborted and the attempt fails), and
\* only the fired timer of an attempt aborts that attempt's call.
C4_TimeoutBoundsEveryAttempt ==
    /\ pc \in {"fetch", "json"} => elapsed <= self.timeout
    /\ \A k \in aborted : timers[k].state = "fired"
    /\ \A i \in 1..Len(outcomes) : outcomes[i].kind = "abort" <=> (i - 1) \in aborted

\* C13: a request that failed (makeRequest threw, or analyzeCode threw) has
\* left this.baseUrl, this.apiKey, this.timeout and this.retryConfig as the
\* constructor set them and the options object as analyzeCode built it, and
\* no step of a call in progress changes either of them.
C13_FailureLeavesConfigAndOptions ==
    /\ [](pc \in {"thrown", "error"} =>
            /\ self = Constructed
            /\ \E code \in ReqCodes, language \in ReqLanguages :
                   options = BuiltOptions(code, language))
    /\ [][pc # "idle" => (self' = self /\ options' = options)]_vars

\* C13 witness: every attempt failed, analyzeCode threw, and the request
\* that went out carried the default headers next to the caller's fields.
C13_Witness ==
    /\ Exhausted
    /\ pc = "error"
    /\ requestOptions = Spread(DefaultOptions, options)
    /\ DOMAIN requestOptions # DOMAIN options

\* C18: once makeRequest has returned or thrown, no timer it armed for an
\* attempt is still pending: each was cleared or has fired.
C18_NoTimerPendingAfterSettle ==
    pc \in {"returned", "thrown", "report", "error"} =>
        \A k \in Attempts : timers[k].state # "pending"

(***************************************************************************)
(* Properties of the page (checked under SpecPage)                         *)
(***************************************************************************)
\* C5: at most one analysis is in flight at any time.
C5_AtMostOneInFlight == Len(analyses) <= 1

\* A string with no character other than whitespace (the empty one included).
IsBlank(code) == \A i \in 1..Len(code) : code[i].ch \in Whitespace

\* The steps in which the analyze action is triggered, by click or by shortcut.
AnalyzeTriggered == AnalyzeClick \/ AnalyzeShortcut

\* C10: whenever the editor holds only whitespace, validateInput names the
\* emptiness violation for it, and an analyze trigger raises the alert and
\* leaves the running analyses, the provider calls, the loading indicator,
\* the results section and the summary values as they were; no running
\* analysis and no provider call ever carries blank code.
C10_BlankCodeRejectedBeforeDispatch ==
    /\ [](IsBlank(codeInput) =>
            /\ validateInput(codeInput, languageSelect).isValid = FALSE
            /\ validateInput(codeInput, languageSelect).errors[1] = EmptyError)
    /\ [](/\ \A i \in 1..Len(analyses) : ~IsBlank(analyses[i].code)
          /\ \A c \in providerCalls : ~IsBlank(c[1]))
    /\ [][(IsBlank(codeInput) /\ AnalyzeTriggered) =>
            /\ dialog' = EmptyAlert
            /\ UNCHANGED <<analyses, providerCalls, loadingActive, resultsActive,
                           summary, lists, optimizedCode, progressBar>>]_vars

\* C10 witness: results of an earlier analysis are on screen, the editor was
\* changed to whitespace only, and the analyze trigger raised the alert.
C10_Witness ==
    /\ dialog = EmptyAlert
    /\ codeInput # <<>>
    /\ IsBlank(codeInput)
    /\ resultsActive
    /\ summary # NoSummary

\* What the page shows of a report: the summary cards, the lists, the code.
Rendered ==
    [summary |-> summary, lists |-> lists, optimizedCode |-> optimizedCode]

\* C14: what the page shows after an analysis is what the mock provider
\* gives for every call made so far, whatever code and language the call
\* had: the same counts, the grade B+ (not the top grade A+), the same lists
\* with the var finding among the issues, the same optimized code.
C14_MockReportIgnoresInput ==
    providerCalls # {} =>
        /\ \A call \in providerCalls :
               LET analysis == getMockAnalysisData(call[1], call[2])
               IN  Rendered =
                       [summary |-> [issues |-> NumberText(analysis.stats.issuesCount),
                                     security |-> NumberText(analysis.stats.securityCount),
                                     optimizations |->
                                         NumberText(analysis.stats.optimizationsCount),
                                     qualityScore |-> analysis.stats.qualityScore],
                        lists |-> [issues |-> analysis.issues,
                                   security |-> analysis.security,
                                   performance |-> analysis.performance],
                        optimizedCode |-> analysis.optimized]
        /\ summary.qualityScore = "B+"
        /\ summary.qualityScore # "A+"
        /\ \E i \in 1..Len(lists.issues) :
               lists.issues[i].title = "Using var instead of const/let"

\* C14 witness: two analyses, of different codes in different languages,
\* have both been rendered and the results are shown.
C14_Witness ==
    /\ resultsActive
    /\ analyses = <<>>
    /\ \E c1 \in providerCalls, c2 \in providerCalls : c1[1] # c2[1] /\ c1[2] # c2[2]

\* C16: while an analysis is outstanding (accepted and not yet revealed), the
\* loading indicator is active and the results section is hidden.
C16_LoadingWhileOutstanding ==
    analyses # <<>> => (loadingActive /\ ~resultsActive)

\* C17: a confirmed clear empties the editor and hides the results, and the
\* results are not shown again by an analysis that was triggered before that
\* clear (they stay hidden until one triggered after it completes).
C17_ResultsHiddenAfterClear ==
    /\ [][ClearAnswer(TRUE) => (codeInput' = <<>> /\ ~resultsActive')]_vars
    /\ [][(/\ analyses # <<>>
           /\ Head(analyses).cleared
           /\ analyses' = Tail(analyses)) => ~resultsActive']_vars

\* C19: a report exported while results are on screen names the language
\* and (up to surrounding whitespace) the code of the analysis that produced
\* the summary counts, the quality score and the optimized code it contains.
C19_ExportSelfConsistent ==
    [][(ExportClick /\ resultsActive /\ analyses = <<>>) =>
          /\ exported'.value.summary = summary
          /\ exported'.value.optimizedCode = optimizedCode
          /\ exported'.value.language = renderedFrom.language
          /\ Trim(exported'.value.originalCode) = renderedFrom.code]_vars

\* C15: whenever an analysis is outstanding, whatever the user does in the
\* meantime, a state is eventually reached in which the loading indicator
\* is hidden and the results section is shown.
C15_AnalysisEventuallyCompletes ==
    (analyses # <<>>) ~> (~loadingActive /\ resultsActive)

\* C15 witness: an analysis was started, the editor was cleared while it
\* ran, and it has completed: loading hidden, results shown, none outstanding.
C15_Witness ==
    /\ analyses = <<>>
    /\ ~loadingActive
    /\ resultsActive
    /\ codeInput = <<>>
    /\ renderedFrom # NoAnalysis

(***************************************************************************)
(* Properties of calculateQualityScore (checked under SpecScore)           *)
(***************************************************************************)
GradeOrder == <<"A+", "A", "B+", "B", "C+", "C">>

\* The place of a grade in the order, 1 for the best.
GradeRank(g) == CHOOSE k \in 1..Len(GradeOrder) : GradeOrder[k] = g

\* The findings of a response, and how many of them are of high severity
\* whatever the case of the spelling.
FindingsOf(r) ==
    (IF "issues" \in DOMAIN r THEN r.issues ELSE <<>>)
        \o (IF "security" \in DOMAIN r THEN r.security ELSE <<>>)
        \o (IF "performance" \in DOMAIN r THEN r.performance ELSE <<>>)

TotalOf(r) == Len(FindingsOf(r))

HighCountOf(r) ==
    Cardinality({i \in 1..TotalOf(r) :
                    /\ "severity" \in DOMAIN FindingsOf(r)[i]
                    /\ FindingsOf(r)[i].severity \in {"high", "HIGH", "High"}})

\* Every finding of the response carries a severity.
HasSeverities(r) == \A i \in 1..TotalOf(r) : "severity" \in DOMAIN FindingsOf(r)[i]

Graded(score) ==
    score.kind = "value" /\ score.value \in {GradeOrder[k] : k \in 1..Len(GradeOrder)}

\* C6: a response whose findings all carry a severity gets exactly one of the
\* six grades, and whenever response A has at least as many high-severity
\* findings and at least as many findings as response B and both are graded,
\* the grade of A is not better than the grade of B.
C6_GradeMonotonic ==
    scoreA # NotRun =>
        /\ HasSeverities(respA) => Graded(scoreA)
        /\ HasSeverities(respB) => Graded(scoreB)
        /\ (/\ HighCountOf(respA) >= HighCountOf(respB)
            /\ TotalOf(respA) >= TotalOf(respB)
            /\ Graded(scoreA)
            /\ Graded(scoreB))
              => GradeRank(scoreA.value) >= GradeRank(scoreB.value)

\* C6 witness: A has more high-severity findings and more findings than B,
\* A is graded C and B is graded B+.
C6_Witness ==
    /\ scoreA = Value("C")
    /\ scoreB = Value("B+")
    /\ HighCountOf(respA) > HighCountOf(respB)
    /\ TotalOf(respA) > TotalOf(respB)

(***************************************************************************)
(* Properties of transformResponse (checked under SpecNormalize)           *)
(***************************************************************************)
EmptyReport ==
    [issues |-> <<>>, security |-> <<>>, performance |-> <<>>, optimized |-> "",
     stats |-> [issuesCount |-> 0, securityCount |-> 0, optimizationsCount |-> 0,
                qualityScore |-> "A+"]]

\* C7: transformResponse of the response with no field returns the empty
\* report: three empty lists, empty optimized code, counts 0 and grade A+.
C7_MinimalGivesEmptyReport ==
    (transformed # NotRun /\ DOMAIN apiResponse = {}) => transformed = Value(EmptyReport)

\* C7 witness: transformResponse has run on the response with no field.
C7_Witness == transformed # NotRun /\ DOMAIN apiResponse = {}

\* C8: transformResponse returns a report for every response, whatever
\* fields the response or its findings lack.
C8_NormalizationNeverThrows == transformed # NotRun => transformed.kind = "value"

\* The severity levels of config.js.
SeverityLevels == {"high", "medium", "low"}

\* C12: every finding of a report that transformResponse returns has a
\* severity among high, medium and low.
C12_SeveritiesInEnumeration ==
    (transformed # NotRun /\ transformed.kind = "value") =>
        \A list \in {transformed.value.issues, transformed.value.security,
                      transformed.value.performance} :
            \A i \in 1..Len(list) : list[i].severity \in SeverityLevels

(***************************************************************************)
(* Properties of validateInput (checked under SpecValidate)                *)
(***************************************************************************)
\* How often an entry occurs in a list.
Occurrences(list, e) == Cardinality({i \in 1..Len(list) : list[i] = e})

\* C9: the error list holds the emptiness error once when the code is blank,
\* the length error once when the code is longer than the maximum, the
\* language error once when the language is not supported, never an entry for
\* a constraint that holds, and isValid is true exactly when it is empty.
C9_AllViolationsReported ==
    validation # NotRun =>
        LET errors == validation.value.errors
            blank == IsBlank(vCode)
            long == StrLength(vCode) > CONFIG.analysis.maxCodeLength
            unsupported == vLanguage \notin CONFIG.analysis.supportedLanguages
            violated == {c \in {"blank", "long", "unsupported"} :
                            \/ c = "blank" /\ blank
                            \/ c = "long" /\ long
                            \/ c = "unsupported" /\ unsupported}
        IN  /\ Occurrences(errors, EmptyError) = IF blank THEN 1 ELSE 0
            /\ Occurrences(errors, LengthError) = IF long THEN 1 ELSE 0
            /\ Occurrences(errors, LanguageError(vLanguage)) = IF unsupported THEN 1 ELSE 0
            /\ Len(errors) = Cardinality(violated)
            /\ validation.value.isValid <=> errors = <<>>

\* C9 witness: whitespace-only code longer than the maximum in an unsupported
\* language, reported with all three errors.
C9_Witness ==
    /\ validation # NotRun
    /\ vCode # <<>>
    /\ validation.value.errors = <<EmptyError, LengthError, LanguageError(vLanguage)>>

\* C11: a code longer than analysis.maxCodeLength is rejected with the length
\* error in the list, and the same list also holds the emptiness error when
\* that code is blank and the language error when the language is not
\* supported.
C11_OverLengthRejectedWithOthers ==
    (validation # NotRun /\ StrLength(vCode) > CONFIG.analysis.maxCodeLength) =>
        LET errors == validation.value.errors
            reported == {errors[i] : i \in 1..Len(errors)}
        IN  /\ ~validation.value.isValid
            /\ LengthError \in reported
            /\ IsBlank(vCode) => EmptyError \in reported
            /\ vLanguage \notin CONFIG.analysis.supportedLanguages
                    => LanguageError(vLanguage) \in reported

\* C11 witness: a non-blank code made of two runs, each within the maximum
\* and together longer than it, in an unsupported language: rejected with the
\* length error and the language error.
C11_Witness ==
    /\ validation # NotRun
    /\ Len(vCode) = 2
    /\ \A i \in 1..2 : vCode[i].n <= CONFIG.analysis.maxCodeLength
    /\ validation.value.errors = <<LengthError, LanguageError(vLanguage)>>

====
